---- MODULE Spec2Model ----
(***************************************************************************)
(* The request pipeline of natter-rust-axum: the content-type gate, the    *)
(* rate limiter, the authenticator, the two-phase audit recorder, the      *)
(* route-specific require_authentication / require_permission stages and   *)
(* the handlers, for several requests served concurrently against one      *)
(* database and one rate limiter.                                          *)
(***************************************************************************)
EXTENDS Integers, Sequences, FiniteSets, TLC

\* ------------------------------------------------------------------ bounds

\* Requests served concurrently.
NumReqs == 2
\* The clock reads 0 to MaxTime; one unit is one replenish interval.
MaxTime == 1

Reqs == 1..NumReqs

\* ------------------------------------------------------- program constants

\* main.rs:21  DEFAULT_RATE_LIMIT = nonzero!(2u32)
DEFAULT_RATE_LIMIT == 2
\* main.rs:52  Quota::per_second(n): one cell is replenished every 1s/n; the
\* clock of the model counts these intervals.
ReplenishInterval == 1

\* Every error answered as an internal error.
StatusCodeInternal(e) == 500

\* error.rs:30-45  ApiError -> StatusCode
StatusCode(e) ==
  CASE e = "NotFound" -> 404
    [] e = "BadRequest" -> 400
    [] e = "Conflict" -> 409
    [] e = "OnlySupportJsonContentType" -> 415
    [] e = "TooManyRequests" -> 429
    [] e = "AuthenticationRequired" -> 401
    [] e = "Forbidden" -> 403
    [] e = "DatabaseError" -> 500
    [] e = "ServerError" -> 500

\* An error response without the headers of error.rs:53-63.
HeadersNone(e) == {}

\* error.rs:53-63: TooManyRequests carries Retry-After: 2, whatever the
\* limiter's state; AuthenticationRequired names the Basic scheme.
Headers(e) ==
  CASE e = "TooManyRequests" -> {<<"retry-after", "2">>}
    [] e = "AuthenticationRequired" -> {<<"www-authenticate", "Basic">>}
    [] OTHER -> {}

\* error.rs:29-65  ApiError::into_response: the status of the error and a JSON
\* body holding its message (the model keeps the error's name as the body).
ErrorResponse(e) == [status |-> StatusCode(e), headers |-> Headers(e), body |-> e]

\* api.rs:56-82  Json / CreatedJson into_response of a handler's result.
HandlerResponse(code, route) == [status |-> code, headers |-> {}, body |-> route]

NoResponse == [status |-> 0, headers |-> {}, body |-> "none"]

\* ---------------------------------------------------------------- requests

Alice == <<"a", "l">>
Bob == <<"b", "o">>
BadName == <<"1", "x">>
\* Carol has no row in users until she registers; the pw_hash stored for
\* Mallory does not parse as a PasswordHash.
Carol == <<"x", "o">>
Mallory == <<"x", "l">>
NoUser == <<>>

Letters == {"a", "b", "l", "o", "x"}
Digits == {"1"}

\* routes/mod.rs USER_REGEX (used at middlewares.rs:72): a letter followed
\* by letters and digits, of bounded length.
UserMaxLen == 30
USER_REGEX_is_match(u) ==
  /\ Len(u) >= 2
  /\ Len(u) <= UserMaxLen
  /\ u[1] \in Letters
  /\ \A i \in 2..Len(u) : u[i] \in Letters \cup Digits

\* The Authorization header of a request: absent, or Basic credentials.
NoCred == [present |-> FALSE, username |-> NoUser, password |-> "none"]
Creds ==
  {NoCred} \cup
  [present : {TRUE}, username : {Alice, Bob, Carol, Mallory, BadName},
   password : {"good", "bad"}]

\* routes/space.rs:17-31, routes/moderator.rs:8-17, routes/user.rs:15-17:
\* the routes, each with its method and its route-specific stage.
Routes ==
  {"create_space", "post_message", "find_messages", "read_message",
   "delete_message", "register_user"}

MethodOf(route) ==
  CASE route \in {"create_space", "post_message", "register_user"} -> "POST"
    [] route \in {"find_messages", "read_message"} -> "GET"
    [] route = "delete_message" -> "DELETE"

\* The route-specific stage wrapped around the handler.
RouteStage(route) ==
  CASE route = "create_space" -> "require_authentication"
    [] route = "register_user" -> "none"
    [] OTHER -> "require_permission"

\* api.rs Permission {read, write, delete}, attached per route as Extension.
Permission(r, w, d) == [read |-> r, write |-> w, delete |-> d]

PermissionRequired(route) ==
  CASE route = "post_message" -> Permission(FALSE, TRUE, FALSE)
    [] route \in {"find_messages", "read_message"} -> Permission(TRUE, FALSE, FALSE)
    [] route = "delete_message" -> Permission(FALSE, FALSE, TRUE)
    [] OTHER -> Permission(FALSE, FALSE, FALSE)

ContentTypes == {"json", "text", "absent"}

\* Space 1 exists from the start; create_space may add the next ones.
MaxSpaces == 2
SpaceIds == 1..MaxSpaces

\* The space id of the path; 0 for a route whose path has none.
SpacesOf(route) ==
  IF RouteStage(route) = "require_permission" THEN SpaceIds ELSE {0}

Requests ==
  {q \in [route : Routes, space : SpaceIds \cup {0}, content_type : ContentTypes,
          cred : Creds] : q.space \in SpacesOf(q.route)}

NoRequest ==
  [route |-> "none", space |-> 0, content_type |-> "absent", cred |-> NoCred]

\* req.uri().path() (middlewares.rs:126)
PathOf(q) ==
  CASE q.route = "create_space" -> <<"spaces">>
    [] q.route = "register_user" -> <<"users">>
    [] q.route \in {"post_message", "find_messages"} -> <<"spaces", q.space, "messages">>
    [] OTHER -> <<"spaces", q.space, "messages", 1>>

\* ------------------------------------------------------------------- state

VARIABLES
  pc,            \* where each request stands in the pipeline
  request,       \* the request's method, path, headers
  stages,        \* the stages that have run for the request, in order
  auth_ctx,      \* the AuthContext extension: "unset" or its subject
  audit_id,      \* the audit id the request allocated (0: none)
  tx,            \* the request's audit transaction, its uncommitted rows and
                 \* the user_id audit_request captured
  res,           \* the response next.run returned to audit_request
  response,      \* the response sent to the client
  t0,            \* the clock reading of the request's limiter check, while
                 \* the check runs
  prev,          \* the limiter state the check loaded, while the check runs
  lookups,       \* the tables the request's middlewares have queried with a
                 \* SELECT (users, permissions)
  tat,           \* the limiter's state (0: no cell seen yet)
  now,           \* the clock: its last reading
  audit_id_seq,  \* the last value of the sequence audit_id_seq
  audit_log,     \* the committed rows of audit_log
  users,         \* table users: user_id -> pw_hash
  permissions,   \* table permissions: <<space_id, user_id>> -> perms
  spaces,        \* table spaces: the space ids
  messages       \* table messages: <<space_id, msg_id>>

reqVars ==
  <<pc, request, stages, auth_ctx, audit_id, tx, res, response, t0, prev, lookups>>
limVars == <<tat, now>>
dbVars == <<users, permissions, spaces, messages>>
vars == <<reqVars, limVars, audit_id_seq, audit_log, dbVars>>

\* Pipeline with the audit recorder layered outside the authenticator.
PipelineAuditFirst ==
  <<"accept_only_json_payload_in_post", "rate_limit_requests", "audit_request",
    "authenticate">>

\* Pipeline with the rate limiter layered inside the authenticator.
PipelineLimiterAfterAuthenticate ==
  <<"accept_only_json_payload_in_post", "authenticate", "rate_limit_requests",
    "audit_request">>

\* main.rs:84-87: the stages every request passes, outermost first.
Pipeline ==
  <<"accept_only_json_payload_in_post", "rate_limit_requests", "authenticate",
    "audit_request">>

\* next.run(req) of a stage of the pipeline: the stage after it, and after
\* the last one the route's own stage or, when the route has none, its handler.
NextRun(stage, route) ==
  LET i == CHOOSE k \in 1..Len(Pipeline) : Pipeline[k] = stage
  IN  IF i < Len(Pipeline) THEN Pipeline[i + 1]
      ELSE IF RouteStage(route) = "none" THEN "handler"
      ELSE RouteStage(route)

NoTx == [state |-> "none", rows |-> {}, user_id |-> NoUser]

\* scrypt's PasswordHash string of a password; a malformed stored hash has
\* alg "bad".
PwHash(p) == [alg |-> "scrypt", of |-> p]
MalformedHash == [alg |-> "bad", of |-> "good"]

\* The limiter before the first check (0), and after one cell was taken at
\* time 0 by a request that left no other trace (one that authenticate
\* rejected): one cell of the burst is left.
InitialTat == {0, 2 * ReplenishInterval}

Init ==
  /\ pc = [r \in Reqs |-> "idle"]
  /\ request = [r \in Reqs |-> NoRequest]
  /\ stages = [r \in Reqs |-> <<>>]
  /\ auth_ctx = [r \in Reqs |-> [set |-> FALSE, subject |-> NoUser]]
  /\ audit_id = [r \in Reqs |-> 0]
  /\ tx = [r \in Reqs |-> NoTx]
  /\ res = [r \in Reqs |-> NoResponse]
  /\ response = [r \in Reqs |-> NoResponse]
  /\ t0 = [r \in Reqs |-> 0]
  /\ prev = [r \in Reqs |-> 0]
  /\ lookups = [r \in Reqs |-> {}]
  /\ tat \in InitialTat
  /\ now = 0
  /\ audit_id_seq = 0
  /\ audit_log = {}
  /\ users = (Alice :> PwHash("good")) @@ (Bob :> PwHash("good"))
             @@ (Mallory :> MalformedHash)
  /\ permissions = (<<1, Alice>> :> <<"r", "w", "d">>) @@ (<<1, Bob>> :> <<"r">>)
  /\ spaces = {1}
  /\ messages = {<<1, 1>>}

\* ----------------------------------------------------------------- helpers

Max(a, b) == IF a >= b THEN a ELSE b

Range(f) == {f[i] : i \in DOMAIN f}

\* A stage has started for the request.
Started(r, stage) == stages' = [stages EXCEPT ![r] = Append(@, stage)]

\* A stage or the handler returns a response: it travels back through the
\* stages that awaited next.run. All of them hand it on unchanged except
\* audit_request (middlewares.rs:140), which awaits it once its transaction
\* has committed.
Return(r, resp) ==
  IF tx[r].state = "committed"
  THEN /\ pc' = [pc EXCEPT ![r] = "audit_after"]
       /\ res' = [res EXCEPT ![r] = resp]
       /\ UNCHANGED response
  ELSE /\ pc' = [pc EXCEPT ![r] = "done"]
       /\ response' = [response EXCEPT ![r] = resp]
       /\ UNCHANGED res

\* Ok(next.run(req).await) of a stage of the pipeline.
Continue(r, stage) ==
  /\ pc' = [pc EXCEPT ![r] = NextRun(stage, request[r].route)]
  /\ UNCHANGED <<res, response>>

\* --------------------------------------------------------------- the stages

\* The requests that are served while other requests are in progress: a JSON
\* POST of a message to space 1, anonymous (no subject), as Alice (grant
\* "rwd") or as Bob (grant "r"), and the creation of a space by Alice.
Concurrent ==
  {q \in Requests :
     /\ q.content_type = "json"
     /\ q.cred.password # "bad"
     /\ q.cred.username \in {NoUser, Alice, Bob}
     /\ \/ q.route = "post_message" /\ q.space = 1
        \/ q.route = "create_space" /\ q.cred.username = Alice}

\* A client sends a request. Every request of Requests is served alone, and
\* the requests of Concurrent are served together.
Arrive(r, q) ==
  /\ pc[r] = "idle"
  /\ \A p \in 1..(r - 1) : pc[p] # "idle" /\ request[p] \in Concurrent
  /\ r > 1 => q \in Concurrent
  /\ request' = [request EXCEPT ![r] = q]
  /\ pc' = [pc EXCEPT ![r] = Pipeline[1]]
  /\ UNCHANGED <<lookups, stages, auth_ctx, audit_id, tx, res, response, t0, prev>>
  /\ UNCHANGED <<limVars, audit_id_seq, audit_log, dbVars>>

\* middlewares.rs:17-40
accept_only_json_payload_in_post(r) ==
  /\ pc[r] = "accept_only_json_payload_in_post"
  /\ Started(r, "accept_only_json_payload_in_post")
  /\ IF MethodOf(request[r].route) # "POST"
     THEN Continue(r, "accept_only_json_payload_in_post")
     ELSE CASE request[r].content_type = "json" ->
                 Continue(r, "accept_only_json_payload_in_post")
            [] request[r].content_type = "text" ->
                 Return(r, ErrorResponse("OnlySupportJsonContentType"))
            [] request[r].content_type = "absent" ->
                 Return(r, ErrorResponse("ServerError"))
  /\ UNCHANGED <<lookups, request, auth_ctx, audit_id, tx, t0, prev>>
  /\ UNCHANGED <<limVars, audit_id_seq, audit_log, dbVars>>

\* governor's GCRA for Quota::per_second(DEFAULT_RATE_LIMIT) (main.rs:52):
\* the decision of one check on the limiter state it loaded. A state of 0 is
\* the state before the first cell.
Tau == ReplenishInterval * DEFAULT_RATE_LIMIT

TatOf(state, t) == IF state = 0 THEN t + ReplenishInterval ELSE state

Conforms(state, t) == t >= Max(TatOf(state, t) - Tau, 0)

NextTat(state, t) == Max(TatOf(state, t), t) + ReplenishInterval

\* The cells the limiter in a state would still grant to checks reading the
\* clock at t.
RECURSIVE Cells(_, _)
Cells(state, t) ==
  IF Conforms(state, t) THEN 1 + Cells(NextTat(state, t), t) ELSE 0

\* middlewares.rs:42-49: ctx.limiter.check() reads the clock, which is
\* monotonic: time t, not before the last reading. Then it loads the
\* limiter's state.
rate_limit_requests(r) ==
  /\ pc[r] = "rate_limit_requests"
  /\ Started(r, "rate_limit_requests")
  /\ \E t \in now..MaxTime :
       /\ now' = t
       /\ t0' = [t0 EXCEPT ![r] = t]
  /\ prev' = [prev EXCEPT ![r] = tat]
  /\ pc' = [pc EXCEPT ![r] = "rate_limit_cas"]
  /\ UNCHANGED <<lookups, request, auth_ctx, audit_id, tx, res, response>>
  /\ UNCHANGED <<tat, audit_id_seq, audit_log, dbVars>>

\* A plain store in place of the compare-and-swap.
StoreWithoutCompare(r) == TRUE

\* The store of the new limiter state: compare-and-swap against the state
\* the decision was taken on.
CompareExchange(r) == tat = prev[r]

\* The check returns: its locals are gone.
Decided(r) ==
  /\ t0' = [t0 EXCEPT ![r] = 0]
  /\ prev' = [prev EXCEPT ![r] = 0]

\* middlewares.rs:49-58: the check decides on the loaded state; a positive
\* decision is stored by compare-and-swap and taken again when the state has
\* changed meanwhile.
rate_limit_cas(r) ==
  /\ pc[r] = "rate_limit_cas"
  /\ IF ~Conforms(prev[r], t0[r])
     THEN /\ Return(r, ErrorResponse("TooManyRequests"))
          /\ Decided(r)
          /\ UNCHANGED tat
     ELSE IF CompareExchange(r)
     THEN /\ tat' = NextTat(prev[r], t0[r])
          /\ Continue(r, "rate_limit_requests")
          /\ Decided(r)
     ELSE /\ prev' = [prev EXCEPT ![r] = tat]
          /\ UNCHANGED <<pc, res, response, tat, t0>>
  /\ UNCHANGED <<lookups, request, stages, auth_ctx, audit_id, tx, now>>
  /\ UNCHANGED <<audit_id_seq, audit_log, dbVars>>

\* Any password verifies against any stored hash.
VerifyAnyPassword(password, hash) == TRUE

\* middlewares.rs:82-93: the stored hash parses and verifies the password.
VerifyPassword(password, hash) == hash.alg = "scrypt" /\ hash.of = password

\* Every request is taken to carry credentials.
CredentialsAssumed(cred) == TRUE

\* middlewares.rs:67-69: the request has an Authorization header that holds
\* Basic credentials.
HasCredentials(cred) == cred.present

\* A username check that rejects nothing.
InvalidUserNameNever(cred) == FALSE

\* middlewares.rs:72-74: the username of the credentials does not match
\* USER_REGEX.
InvalidUserName(cred) == ~USER_REGEX_is_match(cred.username)

\* middlewares.rs:61-100
authenticate(r) ==
  LET cred == request[r].cred
      Pass(subject) ==
        /\ auth_ctx' = [auth_ctx EXCEPT ![r] = [set |-> TRUE, subject |-> subject]]
        /\ Continue(r, "authenticate")
  IN
  /\ pc[r] = "authenticate"
  /\ Started(r, "authenticate")
  /\ IF ~HasCredentials(cred)
     THEN /\ Pass(NoUser)
          /\ UNCHANGED lookups
     ELSE IF InvalidUserName(cred)
     THEN /\ Return(r, ErrorResponse("BadRequest"))
          /\ UNCHANGED <<auth_ctx, lookups>>
     ELSE /\ lookups' = [lookups EXCEPT ![r] = @ \cup {"users"}]
          /\ \/ /\ Return(r, ErrorResponse("DatabaseError"))
                /\ UNCHANGED auth_ctx
             \/ IF /\ cred.username \in DOMAIN users
                   /\ VerifyPassword(cred.password, users[cred.username])
                THEN Pass(cred.username)
                ELSE Pass(NoUser)
  /\ UNCHANGED <<request, audit_id, tx, t0, prev>>
  /\ UNCHANGED <<limVars, audit_id_seq, audit_log, dbVars>>

\* ------------------------------------------------------- the audit recorder

\* A row of audit_log; status 0 and user_id <<>> stand for NULL.
AuditRow(id, q, status, user_id) ==
  [audit_id |-> id, method |-> MethodOf(q.route), path |-> PathOf(q),
   status |-> status, user_id |-> user_id]

\* The subject read from the first request's context, as if the AuthContext
\* were kept in state shared by the requests.
AuditUserIdOfFirst(r) == auth_ctx[1].subject

\* The audit rows written without the subject.
AuditUserIdNone(r) == NoUser

\* middlewares.rs:121-124: the subject of the AuthContext extension, None
\* when the extension is missing.
AuditUserId(r) == IF auth_ctx[r].set THEN auth_ctx[r].subject ELSE NoUser

\* The error of a failed step is dropped and the request is passed on.
BeforeFailedIgnored(r, e) ==
  /\ tx' = [tx EXCEPT ![r].state = "aborted", ![r].rows = {}]
  /\ Continue(r, "audit_request")

\* middlewares.rs:110-139: a step of the before phase fails and `?` (or the
\* explicit return of line 116) ends audit_request with the error: the
\* transaction is rolled back, explicitly or by being dropped, and next.run
\* is not called.
BeforeFailed(r, e) ==
  /\ tx' = [tx EXCEPT ![r].state = "aborted", ![r].rows = {}]
  /\ Return(r, ErrorResponse(e))

\* middlewares.rs:110: ctx.db.begin()
audit_request(r) ==
  /\ pc[r] = "audit_request"
  /\ Started(r, "audit_request")
  /\ \/ /\ tx' = [tx EXCEPT ![r].state = "open"]
        /\ pc' = [pc EXCEPT ![r] = "audit_nextval"]
        /\ UNCHANGED <<res, response>>
     \/ BeforeFailed(r, "DatabaseError")
  /\ UNCHANGED <<lookups, request, auth_ctx, audit_id, t0, prev>>
  /\ UNCHANGED <<limVars, audit_id_seq, audit_log, dbVars>>

\* The id taken as one more than the largest id of the committed rows.
MaxLoggedIdPlusOne ==
  LET ids == {row.audit_id : row \in audit_log} \cup {0}
  IN  (CHOOSE m \in ids : \A i \in ids : i <= m) + 1

\* middlewares.rs:111: SELECT nextval('audit_id_seq'): the sequence advances
\* and its advance is never undone, whatever becomes of the transaction.
nextval == audit_id_seq + 1

\* middlewares.rs:111-120
audit_nextval(r) ==
  /\ pc[r] = "audit_nextval"
  /\ \/ /\ audit_id_seq' = nextval
        /\ audit_id' = [audit_id EXCEPT ![r] = nextval]
        /\ pc' = [pc EXCEPT ![r] = "audit_insert"]
        /\ UNCHANGED <<tx, res, response>>
     \/ \* the query fails: the transaction is dropped, which rolls it back
        /\ audit_id_seq' \in {audit_id_seq, nextval}
        /\ BeforeFailed(r, "DatabaseError")
        /\ UNCHANGED audit_id
     \/ \* the query returns NULL: rollback, which may fail too
        /\ \E e \in {"ServerError", "DatabaseError"} : BeforeFailed(r, e)
        /\ UNCHANGED <<audit_id, audit_id_seq>>
  /\ UNCHANGED <<lookups, request, stages, auth_ctx, t0, prev>>
  /\ UNCHANGED <<limVars, audit_log, dbVars>>

\* The pending record written with the sequence's current value, not with
\* the id the request allocated.
PendingRowCurrentValue(r) == AuditRow(audit_id_seq, request[r], 0, AuditUserId(r))

\* middlewares.rs:121-135: the pending record: the id the request allocated,
\* its method and path, no status, the subject.
PendingRow(r) == AuditRow(audit_id[r], request[r], 0, AuditUserId(r))

\* middlewares.rs:121-136: the pending record, written inside the transaction
audit_insert(r) ==
  /\ pc[r] = "audit_insert"
  /\ \/ /\ tx' = [tx EXCEPT ![r].user_id = AuditUserId(r),
                          ![r].rows = @ \cup {PendingRow(r)}]
        /\ pc' = [pc EXCEPT ![r] = "audit_commit"]
        /\ UNCHANGED <<res, response>>
     \/ BeforeFailed(r, "DatabaseError")
  /\ UNCHANGED <<lookups, request, stages, auth_ctx, audit_id, t0, prev>>
  /\ UNCHANGED <<limVars, audit_id_seq, audit_log, dbVars>>

\* The transaction is dropped without a commit: its rows are lost.
CommitForgotten(r) == audit_log

\* middlewares.rs:139: transaction.commit() makes the transaction's rows
\* visible.
Commit(r) == audit_log \cup tx[r].rows

\* middlewares.rs:139-140: commit, then next.run(req)
audit_commit(r) ==
  /\ pc[r] = "audit_commit"
  /\ \/ /\ audit_log' = Commit(r)
        /\ tx' = [tx EXCEPT ![r].state = "committed", ![r].rows = {}]
        /\ Continue(r, "audit_request")
     \/ /\ BeforeFailed(r, "DatabaseError")
        /\ UNCHANGED audit_log
  /\ UNCHANGED <<lookups, request, stages, auth_ctx, audit_id, t0, prev>>
  /\ UNCHANGED <<limVars, audit_id_seq, dbVars>>

\* The after phase writes nothing.
AfterWriteSkipped(r) == audit_log

\* The second INSERT leaves the status out.
AfterWriteWithoutStatus(r) ==
  audit_log \cup {AuditRow(audit_id[r], request[r], 0, tx[r].user_id)}

\* middlewares.rs:141-152: the status of the response next.run returned is
\* written with a second INSERT, outside the transaction.
AfterWrite(r) ==
  audit_log \cup
    {AuditRow(audit_id[r], request[r], res[r].status, tx[r].user_id)}

\* middlewares.rs:140-153: the after phase
audit_after(r) ==
  /\ pc[r] = "audit_after"
  /\ \/ /\ audit_log' = AfterWrite(r)
        /\ response' = [response EXCEPT ![r] = res[r]]
     \/ /\ response' = [response EXCEPT ![r] = ErrorResponse("DatabaseError")]
        /\ UNCHANGED audit_log
  /\ pc' = [pc EXCEPT ![r] = "done"]
  /\ UNCHANGED <<lookups, request, stages, auth_ctx, audit_id, tx, res, t0, prev>>
  /\ UNCHANGED <<limVars, audit_id_seq, dbVars>>

\* ------------------------------------------------- the route-specific stages

\* middlewares.rs:155-170
require_authentication(r) ==
  /\ pc[r] = "require_authentication"
  /\ Started(r, "require_authentication")
  /\ IF ~auth_ctx[r].set
     THEN Return(r, ErrorResponse("ServerError"))
     ELSE IF auth_ctx[r].subject = NoUser
     THEN Return(r, ErrorResponse("AuthenticationRequired"))
     ELSE /\ pc' = [pc EXCEPT ![r] = "handler"]
          /\ UNCHANGED <<res, response>>
  /\ UNCHANGED <<lookups, request, auth_ctx, audit_id, tx, t0, prev>>
  /\ UNCHANGED <<limVars, audit_id_seq, audit_log, dbVars>>

\* Permission::default()
PermissionDefault == Permission(FALSE, FALSE, FALSE)

\* Permission::from(&str): each of the characters r, w, d sets its flag.
PermissionFrom(s) ==
  Permission("r" \in Range(s), "w" \in Range(s), "d" \in Range(s))

\* A test for equal capability sets in place of the subset test.
is_allowed_exactly(required, granted) == required = granted

\* Permission::is_allowed: every capability required is granted.
is_allowed(required, granted) ==
  /\ required.read => granted.read
  /\ required.write => granted.write
  /\ required.delete => granted.delete

\* Every user granted every capability on every space.
UserPermissionAll(space_id, user_id) == Permission(TRUE, TRUE, TRUE)

\* middlewares.rs:200-207: the grant stored for the space and the user, the
\* default when there is no row.
UserPermission(space_id, user_id) ==
  IF <<space_id, user_id>> \in DOMAIN permissions
  THEN PermissionFrom(permissions[<<space_id, user_id>>])
  ELSE PermissionDefault

\* middlewares.rs:178-215
require_permission(r) ==
  /\ pc[r] = "require_permission"
  /\ Started(r, "require_permission")
  /\ IF ~auth_ctx[r].set
     THEN Return(r, ErrorResponse("ServerError"))
     ELSE IF auth_ctx[r].subject = NoUser
     THEN Return(r, ErrorResponse("AuthenticationRequired"))
     ELSE \/ Return(r, ErrorResponse("DatabaseError"))
          \/ IF is_allowed(PermissionRequired(request[r].route),
                           UserPermission(request[r].space, auth_ctx[r].subject))
             THEN /\ pc' = [pc EXCEPT ![r] = "handler"]
                  /\ UNCHANGED <<res, response>>
             ELSE Return(r, ErrorResponse("Forbidden"))
  /\ lookups' = [lookups EXCEPT ![r] =
                   IF auth_ctx[r].set /\ auth_ctx[r].subject # NoUser
                   THEN @ \cup {"permissions"} ELSE @]
  /\ UNCHANGED <<request, auth_ctx, audit_id, tx, t0, prev>>
  /\ UNCHANGED <<limVars, audit_id_seq, audit_log, dbVars>>

\* ------------------------------------------------------------ the handlers

\* api.rs:17-33: the Json extractor of a handler: the body deserializes, or
\* it does not (BadRequest), or the extractor fails otherwise (ServerError).
JsonBodies == {"ok", "invalid", "unreadable"}

JsonRejection(body) ==
  IF body = "invalid" THEN ErrorResponse("BadRequest") ELSE ErrorResponse("ServerError")

\* The handler of a route is entered.
\* A handler that runs without waiting for the authorizer's answer.
AtHandlerUnchecked(r, route) ==
  /\ pc[r] \in {"handler", "require_permission"}
  /\ request[r].route = route
  /\ Started(r, "handler")

AtHandler(r, route) ==
  /\ pc[r] = "handler"
  /\ request[r].route = route
  /\ Started(r, "handler")

NewSpaceId == Cardinality(spaces) + 1
MaxMsgId == 2
NewMsgId == Cardinality(messages) + 1

\* A grant of read and write only.
OwnerGrantReadWrite == <<"r", "w">>

\* routes/space.rs:78: the perms inserted for the owner of a new space, "rwd".
OwnerGrant == <<"r", "w", "d">>

\* routes/space.rs:47-87
create_space(r) ==
  /\ AtHandler(r, "create_space")
  /\ \E body \in JsonBodies, owner \in {Alice, Bob, BadName}, name_ok \in BOOLEAN :
       IF body # "ok"
       THEN Return(r, JsonRejection(body)) /\ UNCHANGED dbVars
       ELSE IF ~USER_REGEX_is_match(owner) \/ ~name_ok
       THEN Return(r, ErrorResponse("BadRequest")) /\ UNCHANGED dbVars
       ELSE IF ~(auth_ctx[r].set /\ auth_ctx[r].subject = owner)
       THEN Return(r, ErrorResponse("BadRequest")) /\ UNCHANGED dbVars
       ELSE \/ \* both inserts and the commit succeed
               /\ NewSpaceId <= MaxSpaces
               /\ spaces' = spaces \cup {NewSpaceId}
               /\ permissions' = permissions @@ (<<NewSpaceId, owner>> :> OwnerGrant)
               /\ Return(r, HandlerResponse(201, "create_space"))
               /\ UNCHANGED <<users, messages>>
            \/ \* begin, an insert or the commit fails: nothing is committed
               /\ Return(r, ErrorResponse("DatabaseError"))
               /\ UNCHANGED dbVars
  /\ UNCHANGED <<lookups, request, auth_ctx, audit_id, tx, t0, prev>>
  /\ UNCHANGED <<limVars, audit_id_seq, audit_log>>

\* routes/space.rs:102-140
post_message(r) ==
  /\ AtHandler(r, "post_message")
  /\ \E body \in JsonBodies, author \in {Alice, Bob, BadName}, message_ok \in BOOLEAN :
       IF body # "ok"
       THEN Return(r, JsonRejection(body)) /\ UNCHANGED dbVars
       ELSE IF ~USER_REGEX_is_match(author) \/ ~message_ok
       THEN Return(r, ErrorResponse("BadRequest")) /\ UNCHANGED dbVars
       ELSE IF ~(auth_ctx[r].set /\ auth_ctx[r].subject = author)
       THEN Return(r, ErrorResponse("BadRequest")) /\ UNCHANGED dbVars
       ELSE \/ /\ NewMsgId <= MaxMsgId
               /\ messages' = messages \cup {<<request[r].space, NewMsgId>>}
               /\ Return(r, HandlerResponse(201, "post_message"))
               /\ UNCHANGED <<users, permissions, spaces>>
            \/ /\ Return(r, ErrorResponse("DatabaseError"))
               /\ UNCHANGED dbVars
  /\ UNCHANGED <<lookups, request, auth_ctx, audit_id, tx, t0, prev>>
  /\ UNCHANGED <<limVars, audit_id_seq, audit_log>>

\* routes/space.rs:150-171
read_message(r) ==
  /\ AtHandler(r, "read_message")
  /\ \/ IF <<request[r].space, 1>> \in messages
        THEN Return(r, HandlerResponse(200, "read_message"))
        ELSE Return(r, ErrorResponse("NotFound"))
     \/ Return(r, ErrorResponse("DatabaseError"))
  /\ UNCHANGED <<lookups, request, auth_ctx, audit_id, tx, t0, prev>>
  /\ UNCHANGED <<limVars, audit_id_seq, audit_log, dbVars>>

\* routes/space.rs:178-193
find_messages(r) ==
  /\ AtHandler(r, "find_messages")
  /\ \/ Return(r, HandlerResponse(200, "find_messages"))
     \/ \* api.rs:79-95: the query string does not deserialize
        Return(r, ErrorResponse("BadRequest"))
     \/ Return(r, ErrorResponse("DatabaseError"))
  /\ UNCHANGED <<lookups, request, auth_ctx, audit_id, tx, t0, prev>>
  /\ UNCHANGED <<limVars, audit_id_seq, audit_log, dbVars>>

\* routes/moderator.rs:22-34
delete_message(r) ==
  /\ AtHandler(r, "delete_message")
  /\ \/ /\ messages' = messages \ {<<request[r].space, 1>>}
        /\ Return(r, HandlerResponse(200, "delete_message"))
     \/ /\ Return(r, ErrorResponse("DatabaseError"))
        /\ UNCHANGED messages
  /\ UNCHANGED <<lookups, request, auth_ctx, audit_id, tx, t0, prev>>
  /\ UNCHANGED <<limVars, audit_id_seq, audit_log, users, permissions, spaces>>

\* routes/user.rs:32-73
register_user(r) ==
  /\ AtHandler(r, "register_user")
  /\ \E body \in JsonBodies, username \in {Alice, BadName, Carol}, password_ok \in BOOLEAN :
       IF body # "ok"
       THEN Return(r, JsonRejection(body)) /\ UNCHANGED users
       ELSE IF ~USER_REGEX_is_match(username) \/ ~password_ok
       THEN Return(r, ErrorResponse("BadRequest")) /\ UNCHANGED users
       ELSE \/ IF username \in DOMAIN users
               THEN Return(r, ErrorResponse("Conflict")) /\ UNCHANGED users
               ELSE /\ users' = users @@ (username :> PwHash("good"))
                    /\ Return(r, HandlerResponse(201, "register_user"))
            \/ /\ Return(r, ErrorResponse("ServerError"))
               /\ UNCHANGED users
  /\ UNCHANGED <<lookups, request, auth_ctx, audit_id, tx, t0, prev>>
  /\ UNCHANGED <<limVars, audit_id_seq, audit_log, permissions, spaces, messages>>

\* ------------------------------------------------------- the specification

Next ==
  \/ \E r \in Reqs, q \in Requests : Arrive(r, q)
  \/ \E r \in Reqs : accept_only_json_payload_in_post(r)
  \/ \E r \in Reqs : rate_limit_requests(r)
  \/ \E r \in Reqs : rate_limit_cas(r)
  \/ \E r \in Reqs : authenticate(r)
  \/ \E r \in Reqs : audit_request(r)
  \/ \E r \in Reqs : audit_nextval(r)
  \/ \E r \in Reqs : audit_insert(r)
  \/ \E r \in Reqs : audit_commit(r)
  \/ \E r \in Reqs : audit_after(r)
  \/ \E r \in Reqs : require_authentication(r)
  \/ \E r \in Reqs : require_permission(r)
  \/ \E r \in Reqs : create_space(r)
  \/ \E r \in Reqs : post_message(r)
  \/ \E r \in Reqs : read_message(r)
  \/ \E r \in Reqs : find_messages(r)
  \/ \E r \in Reqs : delete_message(r)
  \/ \E r \in Reqs : register_user(r)

Spec == Init /\ [][Next]_vars

\* The steps of the task that serves request r.
Serve(r) ==
  \/ accept_only_json_payload_in_post(r)
  \/ rate_limit_requests(r)
  \/ rate_limit_cas(r)
  \/ authenticate(r)
  \/ audit_request(r)
  \/ audit_nextval(r)
  \/ audit_insert(r)
  \/ audit_commit(r)
  \/ audit_after(r)
  \/ require_authentication(r)
  \/ require_permission(r)
  \/ create_space(r)
  \/ post_message(r)
  \/ read_message(r)
  \/ find_messages(r)
  \/ delete_message(r)
  \/ register_user(r)

\* main.rs:91-96: the runtime keeps polling the task of every accepted
\* request: while the client stays connected, the process runs and the calls
\* the task awaits return, the task takes its next step.
FairSpec == Spec /\ \A r \in Reqs : WF_vars(Serve(r))

\* ------------------------------------------------------------------ claims

\* The stages of a request of a route, in the order of the layers, and its
\* handler.
StagesOf(route) ==
  <<"accept_only_json_payload_in_post", "rate_limit_requests", "authenticate",
    "audit_request">>
  \o (IF RouteStage(route) = "none" THEN <<>> ELSE <<RouteStage(route)>>)
  \o <<"handler">>

IsPrefix(s, t) == Len(s) <= Len(t) /\ \A i \in 1..Len(s) : s[i] = t[i]

Ran(r, stage) == stage \in Range(stages[r])

\* A route-specific stage or the handler of the request has started.
Downstream(r) ==
  Ran(r, "require_authentication") \/ Ran(r, "require_permission") \/ Ran(r, "handler")

\* The committed rows of an audit id: the pending ones, and those with a status.
PendingRows(id) == {row \in audit_log : row.audit_id = id /\ row.status = 0}
StatusRows(id) == {row \in audit_log : row.audit_id = id /\ row.status # 0}

\* C1: the stages of a request run in the order content-type gate, rate
\* limiter, authenticator, audit recorder, route-specific stage, handler, none
\* skipped and none before the one before it: the limiter's check has returned
\* when the authenticator runs, and the AuthContext is set when the audit
\* recorder and the route-specific stages run.
C1_StagesInOrder ==
  \A r \in Reqs :
    /\ IsPrefix(stages[r], StagesOf(request[r].route))
    /\ Ran(r, "authenticate") => pc[r] # "rate_limit_cas" /\ Ran(r, "rate_limit_requests")
    /\ Ran(r, "audit_request") \/ Downstream(r) => auth_ctx[r].set

C1_Witness ==
  \E r \in Reqs :
    /\ RouteStage(request[r].route) # "none"
    /\ stages[r] = StagesOf(request[r].route)

\* C2: once a stage has returned a terminal error for a request, no further
\* stage and no handler runs for it, and the client receives the status of
\* that error (the audit recorder's after phase being the only step left).
C2_FirstErrorIsFinal ==
  /\ [](\A r \in Reqs :
          pc[r] = "done" /\ res[r] # NoResponse /\ ~Ran(r, "handler")
            => response[r].status = res[r].status)
  /\ [][\A r \in Reqs : pc[r] \in {"audit_after", "done"} => stages'[r] = stages[r]]_vars

\* C3: when a route-specific stage or the handler of a request has started,
\* the pending record of the request (its audit id, its method and path, no
\* status) is committed.
C3_PendingCommittedFirst ==
  \A r \in Reqs :
    Downstream(r) =>
      /\ audit_id[r] # 0
      /\ \E row \in PendingRows(audit_id[r]) :
           row.method = MethodOf(request[r].route) /\ row.path = PathOf(request[r])

C3_Witness == \E r \in Reqs : Ran(r, "handler") /\ pc[r] = "audit_after"

\* C4: the caller receives exactly the response, status and body, that the
\* inner pipeline or the handler produced, also when the write of the after
\* phase fails.
C4_ResponseUnchanged ==
  \A r \in Reqs : pc[r] = "done" /\ res[r] # NoResponse => response[r] = res[r]

\* C5: a request whose before phase failed at any step (begin, the id
\* allocation failing or returning nothing, the insert, the commit) is answered
\* with an internal server error, and no route-specific stage and no handler
\* runs for it.
C5_BeforeFailureIsFatal ==
  \A r \in Reqs :
    tx[r].state = "aborted" =>
      /\ pc[r] = "done"
      /\ response[r].status = 500
      /\ ~Downstream(r)

C5_Witness ==
  \E r \in Reqs : tx[r].state = "aborted" /\ audit_id[r] # 0 /\ pc[r] = "done"

\* The request is an unauthenticated POST to a write-protected route.
AnonymousWrite(r) ==
  /\ request[r].route = "post_message"
  /\ auth_ctx[r].set
  /\ auth_ctx[r].subject = NoUser

\* C6: once the before phase of a request has committed and a response came
\* back from downstream of the audit recorder, the after phase runs and what
\* it records is that response's status; an unauthenticated POST to a
\* write-protected route is answered AuthenticationRequired and no record of
\* it carries a successful status.
C6_AfterRecordsResponse ==
  \A r \in Reqs :
    pc[r] = "done" /\ tx[r].state = "committed" =>
      /\ res[r] # NoResponse
      /\ \A row \in StatusRows(audit_id[r]) : row.status = res[r].status
      /\ AnonymousWrite(r) =>
           /\ response[r].status = 401
           /\ \A row \in StatusRows(audit_id[r]) : row.status \notin 200..299

PassedLimiter(r) == Ran(r, "authenticate")

C9_AuditIdsUniqueIncreasing ==
  /\ [](\A r1, r2 \in Reqs :
          r1 # r2 /\ audit_id[r1] # 0 => audit_id[r1] # audit_id[r2])
  /\ [][\A r \in Reqs :
          audit_id'[r] # audit_id[r] =>
            /\ audit_id[r] = 0
            /\ audit_id'[r] > audit_id_seq
            /\ \A o \in Reqs : audit_id'[r] > audit_id[o]]_vars

C9_Witness ==
  \E r1, r2 \in Reqs :
    /\ tx[r1].state = "aborted"
    /\ audit_id[r1] # 0
    /\ audit_id[r2] > audit_id[r1]
    /\ tx[r2].state = "committed"

\* C10: a check that admits its request takes one cell of the limiter's state
\* as it is at that moment, not as the check loaded it: a cell was left, and
\* one less is left after; so of the checks that found the one last cell, one
\* is admitted.
C10_AdmitTakesOneCell ==
  [][\A r \in Reqs :
       pc[r] = "rate_limit_cas" /\ pc'[r] \notin {"rate_limit_cas", "done"} =>
         /\ Cells(tat, t0[r]) >= 1
         /\ Cells(tat', t0[r]) = Cells(tat, t0[r]) - 1]_vars

\* Two checks loaded the state with one cell left; one was admitted and the
\* other is about to find the state changed.
C10_Witness ==
  \E r1, r2 \in Reqs :
    /\ PassedLimiter(r1) \/ pc[r1] = "authenticate"
    /\ pc[r2] = "rate_limit_cas"
    /\ t0[r2] = now
    /\ Cells(prev[r2], t0[r2]) = 1
    /\ Cells(tat, t0[r2]) = 0

\* The stage that answered the request: the last one it started.
EndedIn(r, stage) ==
  /\ pc[r] = "done"
  /\ stages[r] # <<>>
  /\ stages[r][Len(stages[r])] = stage

\* C13: a request the limiter denies is answered 429 with Retry-After: 2,
\* the same for every limiter state and clock reading; the authenticator,
\* the audit recorder and the handler do not run for it and it allocates no
\* audit id and writes no audit row.
C13_DeniedIs429RetryAfter2 ==
  \A r \in Reqs :
    EndedIn(r, "rate_limit_requests") =>
      /\ response[r].status = 429
      /\ response[r].headers = {<<"retry-after", "2">>}
      /\ ~auth_ctx[r].set
      /\ audit_id[r] = 0
      /\ tx[r] = NoTx
      /\ lookups[r] = {}
      /\ stages[r] = <<"accept_only_json_payload_in_post", "rate_limit_requests">>

\* A request is denied while another was admitted and allocated its audit id.
C13_Witness ==
  \E r, o \in Reqs :
    /\ EndedIn(r, "rate_limit_requests")
    /\ response[r].body = "TooManyRequests"
    /\ audit_id[o] # 0
    /\ audit_id_seq = audit_id[o]

\* C14: a request whose credentials carry a username that does not match the
\* username pattern is rejected by the authenticator with BadRequest, and no
\* lookup of a password hash or a grant was issued for it.
C14_InvalidUserNameRejectedFirst ==
  \A r \in Reqs :
    /\ request[r].cred.present
    /\ ~USER_REGEX_is_match(request[r].cred.username)
    /\ Ran(r, "authenticate")
    => /\ EndedIn(r, "authenticate")
       /\ response[r] = ErrorResponse("BadRequest")
       /\ response[r].status = 400
       /\ lookups[r] = {}
       /\ ~auth_ctx[r].set

C14_Witness ==
  \E r \in Reqs :
    /\ request[r].cred.username = BadName
    /\ EndedIn(r, "authenticate")
    /\ response[r].status = 400

\* C15: a request without a credential header leaves the authenticator with
\* subject none and goes on to the next stage: the authenticator answers no
\* such request itself, and issues no lookup for it.
C15_NoCredentialsIsAnonymous ==
  /\ \A r \in Reqs :
       ~request[r].cred.present /\ Ran(r, "authenticate") =>
         /\ auth_ctx[r] = [set |-> TRUE, subject |-> NoUser]
         /\ ~EndedIn(r, "authenticate")
         /\ pc[r] # "authenticate"
         /\ "users" \notin lookups[r]
  /\ [][\A r \in Reqs :
          pc[r] = "authenticate" /\ ~request[r].cred.present /\ pc'[r] # pc[r] =>
            /\ pc'[r] = "audit_request"
            /\ auth_ctx'[r].subject = NoUser]_vars

C15_Witness ==
  \E r \in Reqs :
    /\ ~request[r].cred.present
    /\ request[r].route = "register_user"
    /\ Ran(r, "handler")
    /\ auth_ctx[r].subject = NoUser

\* The credentials name a user whose stored hash is the hash of the
\* password they present.
StoredHashVerifies(cred) ==
  /\ cred.present
  /\ cred.username \in DOMAIN users
  /\ users[cred.username] = PwHash(cred.password)

\* C16: the authenticator sets the subject to the username of the credentials
\* exactly when a hash is stored for that username and the password verifies
\* against it, and to none otherwise; once set the subject does not change;
\* and credentials with a well-formed username never make the authenticator
\* reject the request: it goes on to the audit recorder, unless the lookup of
\* the hash itself failed (a database error).
C16_SubjectIffVerified ==
  /\ [][\A r \in Reqs :
          pc[r] = "authenticate" /\ pc'[r] # pc[r] /\ auth_ctx'[r].set =>
            /\ pc'[r] = "audit_request"
            /\ auth_ctx'[r].subject =
                 IF StoredHashVerifies(request[r].cred)
                 THEN request[r].cred.username ELSE NoUser]_vars
  /\ [][\A r \in Reqs : auth_ctx[r].set => auth_ctx'[r] = auth_ctx[r]]_vars
  /\ [](\A r \in Reqs :
          /\ EndedIn(r, "authenticate")
          /\ request[r].cred.present
          /\ USER_REGEX_is_match(request[r].cred.username)
          => /\ response[r] = ErrorResponse("DatabaseError")
             /\ lookups[r] = {"users"})

\* Credentials for a user whose stored hash is malformed went through the
\* authenticator as anonymous.
C16_Witness ==
  \E r \in Reqs :
    /\ request[r].cred.username = Mallory
    /\ request[r].cred.password = "good"
    /\ auth_ctx[r] = [set |-> TRUE, subject |-> NoUser]
    /\ lookups[r] = {"users"}
    /\ Ran(r, "audit_request")

\* The capabilities a route requires, and the letter of each in a grant.
Capabilities == {"read", "write", "delete"}
LetterOf(c) == CASE c = "read" -> "r" [] c = "write" -> "w" [] c = "delete" -> "d"

\* The grant stored for the space of the request's path and its subject
\* holds every capability the request's route requires.
Granted(r) ==
  LET key == <<request[r].space, auth_ctx[r].subject>>
  IN  \A c \in Capabilities :
        PermissionRequired(request[r].route)[c] =>
          /\ key \in DOMAIN permissions
          /\ LetterOf(c) \in Range(permissions[key])

\* The route of the request is permission-protected.
Protected(r) == RouteStage(request[r].route) = "require_permission"

\* require_permission has answered the request itself.
AnsweredByAuthorizer(r) ==
  /\ Ran(r, "require_permission")
  /\ ~Ran(r, "handler")
  /\ pc[r] \in {"audit_after", "done"}

\* C17: the handler of a permission-protected route is reached only with a
\* subject whose stored grant for the space of the path holds every
\* capability the route requires; without a subject require_permission
\* answers AuthenticationRequired and has looked up no grant; with a subject
\* whose grant lacks a required capability it answers Forbidden (or a
\* database error when the lookup failed).
C17_HandlerOnlyIfGranted ==
  \A r \in Reqs :
    Protected(r) =>
      /\ Ran(r, "handler") =>
           /\ auth_ctx[r].subject # NoUser
           /\ Granted(r)
           /\ "permissions" \in lookups[r]
      /\ AnsweredByAuthorizer(r) /\ auth_ctx[r].subject = NoUser =>
           /\ res[r] = ErrorResponse("AuthenticationRequired")
           /\ "permissions" \notin lookups[r]
      /\ AnsweredByAuthorizer(r) /\ auth_ctx[r].subject # NoUser =>
           /\ res[r].body \in {"Forbidden", "DatabaseError"}
           /\ res[r].body = "Forbidden" => res[r].status = 403 /\ ~Granted(r)
           /\ Granted(r) => res[r].body = "DatabaseError"

\* Bob, whose grant on space 1 is "r", was answered Forbidden on the route
\* that requires write.
C17_Witness ==
  \E r \in Reqs :
    /\ request[r].route = "post_message"
    /\ auth_ctx[r].subject = Bob
    /\ AnsweredByAuthorizer(r)
    /\ res[r] = ErrorResponse("Forbidden")

\* Every capability set over {read, write, delete}.
Permissions == [Capabilities -> BOOLEAN]

\* The capabilities a set flags true.
Flagged(perm) == {c \in Capabilities : perm[c]}

\* C18: is_allowed is the subset test on capability sets: for every
\* requirement and grant it holds exactly when each capability of the
\* requirement is in the grant; a stored grant has the capabilities its
\* letters name; and a user without a grant row has the all-false grant, which
\* gives the same result for every requirement.
C18_IsAllowedIsSubset ==
  /\ \A required, granted \in Permissions :
       is_allowed(required, granted) <=> Flagged(required) \subseteq Flagged(granted)
  /\ \A s \in SpaceIds, u \in {Alice, Bob, Carol, Mallory} :
       IF <<s, u>> \in DOMAIN permissions
       THEN Flagged(UserPermission(s, u)) =
              {c \in Capabilities : LetterOf(c) \in Range(permissions[<<s, u>>])}
       ELSE /\ Flagged(UserPermission(s, u)) = {}
            /\ \A required \in Permissions :
                 is_allowed(required, UserPermission(s, u)) <=>
                   is_allowed(required, Permission(FALSE, FALSE, FALSE))

\* A subject without a grant row for the space was answered Forbidden.
C18_Witness ==
  \E r \in Reqs :
    /\ Protected(r)
    /\ auth_ctx[r].subject # NoUser
    /\ <<request[r].space, auth_ctx[r].subject>> \notin DOMAIN permissions
    /\ AnsweredByAuthorizer(r)
    /\ res[r] = ErrorResponse("Forbidden")

\* C19: require_authentication answers 401 AuthenticationRequired with the
\* header naming the Basic scheme exactly when the subject is absent; with a
\* subject it hands the request on to the handler, the request and its
\* AuthContext unchanged and no response produced.
C19_RequireAuthentication ==
  [][\A r \in Reqs :
       pc[r] = "require_authentication" /\ pc'[r] # pc[r] =>
         IF auth_ctx[r].subject = NoUser
         THEN /\ pc'[r] = "audit_after"
              /\ res'[r] = [status |-> 401,
                            headers |-> {<<"www-authenticate", "Basic">>},
                            body |-> "AuthenticationRequired"]
         ELSE /\ pc'[r] = "handler"
              /\ request'[r] = request[r]
              /\ auth_ctx'[r] = auth_ctx[r]
              /\ res'[r] = NoResponse]_vars

C19_Witness ==
  \E r \in Reqs :
    /\ request[r].route = "create_space"
    /\ auth_ctx[r] = [set |-> TRUE, subject |-> NoUser]
    /\ Ran(r, "require_authentication")
    /\ ~Ran(r, "handler")
    /\ res[r].status = 401

\* C20: every audit row of a request carries as user_id the subject the
\* authenticator set (none for an anonymous request) and the request's method
\* and path, the row of the after phase like the pending row.
C20_AuditRowsCarrySubject ==
  \A r \in Reqs :
    audit_id[r] # 0 =>
      /\ tx[r].rows \subseteq {AuditRow(audit_id[r], request[r], 0, auth_ctx[r].subject)}
      /\ \A row \in PendingRows(audit_id[r]) \cup StatusRows(audit_id[r]) :
           /\ auth_ctx[r].set
           /\ row.user_id = auth_ctx[r].subject
           /\ row.method = MethodOf(request[r].route)
           /\ row.path = PathOf(request[r])
      /\ \A row \in StatusRows(audit_id[r]) :
           \E pending \in PendingRows(audit_id[r]) :
             /\ pending.user_id = row.user_id
             /\ pending.method = row.method
             /\ pending.path = row.path

\* Alice's request and an anonymous request each have both their rows.
C20_Witness ==
  \E r, o \in Reqs :
    /\ auth_ctx[r].subject = Alice
    /\ \E row \in StatusRows(audit_id[r]) : row.user_id = Alice
    /\ auth_ctx[o] = [set |-> TRUE, subject |-> NoUser]
    /\ \E row \in StatusRows(audit_id[o]) : row.user_id = NoUser

\* The methods that change stored state.
Mutating == {"POST", "DELETE"}

\* The content-type gate has dealt with the request.
PastGate(r) ==
  Ran(r, "accept_only_json_payload_in_post") /\ pc[r] # "accept_only_json_payload_in_post"

\* C21, as claimed: a POST or DELETE request whose body is not declared as
\* JSON ends in the content-type gate with a client-error status, the limiter
\* not consulted; a request with another method passes the gate whatever its
\* content type.
C21_GateRejectsNonJsonMutations ==
  \A r \in Reqs :
    PastGate(r) =>
      IF MethodOf(request[r].route) \in Mutating /\ request[r].content_type # "json"
      THEN /\ EndedIn(r, "accept_only_json_payload_in_post")
           /\ response[r].status \in 400..499
           /\ ~Ran(r, "rate_limit_requests")
      ELSE ~EndedIn(r, "accept_only_json_payload_in_post")

\* The request takes a step.
Steps(r) == pc'[r] # pc[r]

\* The stages of the audit recorder's before phase.
BeforePhase == {"audit_request", "audit_nextval", "audit_insert", "audit_commit"}

\* C22: under every interleaving the AuthContext, the audit id and the audit
\* transaction of a request are written only by steps of that request, the
\* AuthContext by its authenticator from its own credentials; the rows of its
\* audit id carry its own subject, and a grant its handler creates names its
\* own subject.
C22_RequestStateIsOwned ==
  /\ [][\A r \in Reqs :
          /\ auth_ctx'[r] # auth_ctx[r] =>
               /\ Steps(r) /\ pc[r] = "authenticate"
               /\ auth_ctx'[r].subject \in {NoUser, request[r].cred.username}
          /\ audit_id'[r] # audit_id[r] => Steps(r) /\ pc[r] = "audit_nextval"
          /\ tx'[r] # tx[r] => Steps(r) /\ pc[r] \in BeforePhase
          /\ request'[r] # request[r] => Steps(r) /\ pc[r] = "idle"
          /\ Steps(r) /\ pc[r] = "handler" =>
               \A key \in DOMAIN permissions' \ DOMAIN permissions :
                 key[2] = auth_ctx[r].subject]_vars
  /\ [](\A r \in Reqs :
          \A row \in audit_log \cup tx[r].rows :
            row.audit_id = audit_id[r] /\ audit_id[r] # 0 =>
              /\ row.user_id = auth_ctx[r].subject
              /\ row.path = PathOf(request[r])
              /\ \A o \in Reqs \ {r} : audit_id[o] # row.audit_id)

\* Alice's and Bob's requests are in progress together, each with its pending
\* row committed under its own subject.
C22_Witness ==
  \E r, o \in Reqs :
    /\ auth_ctx[r].subject = Alice
    /\ auth_ctx[o].subject = Bob
    /\ \E row \in PendingRows(audit_id[r]) : row.user_id = Alice
    /\ \E row \in PendingRows(audit_id[o]) : row.user_id = Bob
    /\ pc[r] # "done"
    /\ pc[o] # "done"

\* The request is inside the limiter's check.
InLimiter(r) == pc[r] \in {"rate_limit_requests", "rate_limit_cas"}

\* The request has issued a persistence call: a lookup, or a statement of
\* its audit transaction.
TouchedPersistence(r) ==
  \/ lookups[r] # {}
  \/ tx[r] # NoTx
  \/ audit_id[r] # 0
  \/ PendingRows(audit_id[r]) # {}
  \/ Ran(r, "handler")

\* C23: a request inside the limiter's check has issued no persistence call,
\* and one that has issued a persistence call has left the check for good;
\* and the check of a request can always take its step, whatever persistence
\* call another request is waiting on.
C23_LimiterNotHeldAcrossPersistence ==
  \A r \in Reqs :
    /\ InLimiter(r) => ~TouchedPersistence(r)
    /\ TouchedPersistence(r) =>
         /\ Ran(r, "rate_limit_requests")
         /\ ~InLimiter(r)
         /\ t0[r] = 0 /\ prev[r] = 0
    /\ pc[r] = "rate_limit_requests" => ENABLED rate_limit_requests(r)
    /\ pc[r] = "rate_limit_cas" => ENABLED rate_limit_cas(r)

\* A request is inside the check while the audit transaction of another is
\* open, waiting for its INSERT.
C23_Witness ==
  \E r, o \in Reqs :
    /\ pc[r] = "rate_limit_cas"
    /\ pc[o] = "audit_insert"
    /\ tx[o].state = "open"

\* The after phase of the request has written its row.
AfterWritten(r) == StatusRows(audit_id[r]) # {}

\* C24, as claimed: while the tasks keep running and the calls they await
\* return, every request whose before phase has committed eventually has its
\* after row and its response, so that no record stays pending.
C24_CommittedLeadsToAfterRow ==
  \A r \in Reqs :
    (tx[r].state = "committed") ~>
      /\ pc[r] = "done"
      /\ response[r] # NoResponse
      /\ AfterWritten(r)

\* C24, amended: while the tasks keep running and the calls they await
\* return, every request whose before phase has committed is eventually
\* answered, and by then its after write was made: the row with the status is
\* there, unless the INSERT itself returned an error, which the answer then
\* reports while the record stays pending.
C24_CommittedLeadsToAfterWrite ==
  \A r \in Reqs :
    (tx[r].state = "committed") ~>
      /\ pc[r] = "done"
      /\ response[r] # NoResponse
      /\ AfterWritten(r) \/ response[r] = ErrorResponse("DatabaseError")

C24_Witness ==
  \E r \in Reqs :
    /\ tx[r].state = "committed"
    /\ pc[r] = "done"
    /\ Ran(r, "handler")
    /\ AfterWritten(r)
    /\ response[r].status = 201

\* The handler create_space of the request takes its step.
CreatesSpace(r) ==
  /\ pc[r] = "handler"
  /\ request[r].route = "create_space"
  /\ Steps(r)

\* C25: a space and the grant of its owner appear in one step of create_space
\* or not at all: a successful create_space by subject s adds the space and
\* the grant "rwd" for s together, a failed one adds neither; the owner's
\* grant allows every requirement on the space; and nothing else, no stage of
\* the pipeline in particular, adds a grant or changes one.
C25_SpaceAndGrantTogether ==
  /\ [][\A r \in Reqs :
          CreatesSpace(r) =>
            IF res'[r].status = 201
            THEN \E id \in SpaceIds \ spaces :
                   /\ auth_ctx[r].subject # NoUser
                   /\ spaces' = spaces \cup {id}
                   /\ permissions' =
                        permissions @@ (<<id, auth_ctx[r].subject>> :> <<"r", "w", "d">>)
            ELSE UNCHANGED <<spaces, permissions>>]_vars
  /\ [][/\ (\E r \in Reqs : CreatesSpace(r)) \/ UNCHANGED <<spaces, permissions>>
        /\ \A key \in DOMAIN permissions :
             key \in DOMAIN permissions' /\ permissions'[key] = permissions[key]]_vars
  /\ [](\A id \in spaces \ {1} :
          \E u \in {Alice, Bob, Carol, Mallory} :
            /\ <<id, u>> \in DOMAIN permissions
            /\ \A required \in Permissions : is_allowed(required, UserPermission(id, u)))

\* Alice has created space 2 and holds its grant.
C25_Witness ==
  \E r \in Reqs :
    /\ request[r].route = "create_space"
    /\ res[r].status = 201
    /\ 2 \in spaces
    /\ <<2, Alice>> \in DOMAIN permissions
    /\ auth_ctx[r].subject = Alice

\* The stages of the pipeline, the handler excluded.
PipelineStages == {Pipeline[i] : i \in 1..Len(Pipeline)} \cup
                  {"require_authentication", "require_permission"}

\* The request was answered by a stage of the pipeline, not by its handler.
RejectedByStage(r) == \E stage \in PipelineStages : EndedIn(r, stage)

\* C26: only a handler's step changes users, spaces, messages or permissions:
\* every step a request takes in a stage of the pipeline leaves them as they
\* were, and a request a stage has rejected never ran its handler, so it has
\* changed none of them; what such a request may change is the audit log and
\* the limiter.
C26_RejectedRequestChangesNoData ==
  /\ [][\A r \in Reqs : Steps(r) /\ pc[r] # "handler" => UNCHANGED dbVars]_vars
  /\ [][(\E r \in Reqs : Steps(r) /\ pc[r] = "handler") \/ UNCHANGED dbVars]_vars
  /\ [](\A r \in Reqs : RejectedByStage(r) => ~Ran(r, "handler"))

\* The authorizer refused a delete_message whose audit record was committed.
C26_Witness ==
  \E r \in Reqs :
    /\ pc[r] = "done"
    /\ request[r].route = "delete_message"
    /\ EndedIn(r, "require_permission")
    /\ res[r].status = 403
    /\ PendingRows(audit_id[r]) # {}
    /\ messages = {<<1, 1>>}

====
